---- MODULE Spec2Model ----
(***************************************************************************)
(* Model of crates/cxx-qt-gen/src/generator/cpp/signal.rs: the generator   *)
(* of the C++ Q_SIGNAL declarations and connect functions of a QObject.    *)
(*                                                                         *)
(* Text is a sequence of tokens (each token a string): format!/formatdoc!  *)
(* is concatenation of the literal pieces of the template with the texts   *)
(* substituted into it, Vec<String>::join(", ") puts the separator token   *)
(* between the elements.                                                   *)
(***************************************************************************)
EXTENDS Naturals, Sequences, FiniteSets

VARIABLES
    call,          \* the entry point running or run last: "none", "signals", "free", "connect"
    pc,            \* position of the call: "idle", "loop", "done"
    signals,       \* generate_cpp_signals: the `signals` argument
    free_signal,   \* generate_cpp_free_signal: the `signal` argument (<<>> when none)
    cxx_mappings,  \* the `cxx_mappings` argument
    idx,           \* generate_cpp_signals: index of the signal the for loop reads next
    methods,       \* generate_cpp_signals: the local `generated.methods`
    origin,        \* history: origin[p] is the index of the signal whose iteration pushed methods[p]
    built,         \* the last call of parameter_types_and_values: its arguments, locals and result
    result,        \* the value the entry point returned (NoResult while none)
    rerun,         \* TRUE when the current call repeats the previous one on the same arguments
    prev,          \* the result of the previous call when rerun
    receiver,      \* runtime of the generated connect: does MaybeLockGuard lock this receiver type
    closure,       \* runtime: the statements of the generated closure, in text order
    tpc,           \* runtime: per thread, the closure statement it is at (0 = outside the closure)
    held,          \* runtime: per thread, whether its guard object holds the receiver's lock
    calling,       \* runtime: per thread, whether the user callback is running in it
    outcome        \* runtime: per thread, how the last invocation left the closure

vars == <<call, pc, signals, free_signal, cxx_mappings, idx, methods, origin, built,
          result, rerun, prev, receiver, closure, tpc, held, calling, outcome>>

genVars == <<call, pc, signals, free_signal, cxx_mappings, idx, methods, origin, built,
             result, rerun, prev>>

runVars == <<receiver, closure, tpc, held, calling, outcome>>

----------------------------------------------------------------------------
(* Bounds of the model *)

MaxParams == 2

MaxSignals == 2

NumThreads == 2

----------------------------------------------------------------------------
(* Result<T>: Ok(value) or Err(error) *)

Ok(v) == [ok |-> TRUE, value |-> v]

Err(e) == [ok |-> FALSE, err |-> e]

NoResult == [none |-> TRUE]

(* Vec<String>::join(sep) *)
RECURSIVE Join(_, _)
Join(vec, sep) ==
    IF vec = <<>> THEN <<>>
    ELSE IF Len(vec) = 1 THEN vec[1]
    ELSE vec[1] \o <<sep>> \o Join(Tail(vec), sep)

----------------------------------------------------------------------------
(* The inputs *)

\* ParsedFunctionParameter { ident, ty }
ParamPool ==
    { [ident |-> "trivial", ty |-> "i32"],
      [ident |-> "mapped", ty |-> "A"],
      [ident |-> "pair", ty |-> "(i32, i32)"] }

\* the parameters of one Rust fn: their identifiers are distinct
ParamLists ==
    { ps \in UNION { [1..n -> ParamPool] : n \in 0..MaxParams } :
        \A a, b \in DOMAIN ps : a # b => ps[a].ident # ps[b].ident }

\* ParsedSignal { qobject_ident, ident.cpp, inherit, parameters }: the fields the
\* generator reads (method, mutable, safe and ident.rust are never read). As in the
\* tests, dataChanged is declared by the QObject and baseName is inherited.
SignalKinds ==
    { [ident |-> "dataChanged", inherit |-> FALSE],
      [ident |-> "baseName", inherit |-> TRUE] }

ParsedSignals(owner) ==
    { [ qobject_ident |-> owner, ident |-> k.ident, inherit |-> k.inherit,
        parameters |-> ps ] : k \in SignalKinds, ps \in ParamLists }

SignalLists == UNION { [1..n -> ParsedSignals("MyObject")] : n \in 0..MaxSignals }

EmptyMap == [x \in {} |-> ""]

\* ParsedCxxMappings { cxx_names, namespaces }
DefaultMappings == [cxx_names |-> EmptyMap, namespaces |-> EmptyMap]

RenamedMappings ==
    [ cxx_names |-> [x \in {"A", "ObjRust"} |-> IF x = "A" THEN "A1" ELSE "ObjCpp"],
      namespaces |-> [x \in {"ObjRust"} |-> "mynamespace"] ]

Mappings == { DefaultMappings, RenamedMappings }

----------------------------------------------------------------------------
(* The collaborators of the generator *)

\* ParsedCxxMappings::cxx: the C++ name of a Rust name, namespace included
cxx(mappings, ident) ==
    LET name == IF ident \in DOMAIN mappings.cxx_names
                THEN mappings.cxx_names[ident] ELSE ident
    IN IF ident \in DOMAIN mappings.namespaces
       THEN <<"::", mappings.namespaces[ident], "::", name>>
       ELSE <<name>>

\* utils::cpp::syn_type_to_cpp_type: the C++ text of a Rust type, or an error
syn_type_to_cpp_type(ty, mappings) ==
    IF ty = "i32" THEN Ok(<<"::std::int32_t">>)
    ELSE IF ty = "(i32, i32)" THEN Err(<<"Unsupported type", ty>>)
    ELSE Ok(cxx(mappings, ty))

\* QSignalName::from: name.cpp and connect_name.cpp of a signal
QSignalName(signal) ==
    [ name |-> <<signal.ident>>, connect_name |-> <<signal.ident, "Connect">> ]

\* QObjectName: cpp_class.cpp of the generated QObject
qobject_idents == [cpp_class |-> "MyObject"]

----------------------------------------------------------------------------
(* parameter_types_and_values *)

SelfValue(ident, ty) == [ident |-> ident, ty |-> ty]

\* a best-effort loop: a parameter whose type does not resolve is left out
RECURSIVE ParameterLoopSkipFailing(_, _, _, _)
ParameterLoopSkipFailing(parameters, mappings, types, values) ==
    IF parameters = <<>> THEN Ok([types |-> types, values |-> values])
    ELSE LET parameter == Head(parameters)
             cxx_ty == syn_type_to_cpp_type(parameter.ty, mappings)
         IN IF ~cxx_ty.ok
            THEN ParameterLoopSkipFailing(Tail(parameters), mappings, types, values)
            ELSE ParameterLoopSkipFailing(Tail(parameters), mappings,
                     Append(types, cxx_ty.value \o <<" ", parameter.ident>>),
                     Append(values, <<"::std::move(", parameter.ident, ")">>))

\* lines 40-48: the for loop over the parameters, `?` returning the first error
RECURSIVE ParameterLoop(_, _, _, _)
ParameterLoop(parameters, mappings, types, values) ==
    IF parameters = <<>> THEN Ok([types |-> types, values |-> values])
    ELSE LET parameter == Head(parameters)
             cxx_ty == syn_type_to_cpp_type(parameter.ty, mappings)
         IN IF ~cxx_ty.ok
            THEN cxx_ty
            ELSE ParameterLoop(Tail(parameters), mappings,
                     Append(types, cxx_ty.value \o <<" ", parameter.ident>>),
                     Append(values, <<"::std::move(", parameter.ident, ")">>))

\* the self entries pushed at the end of the two vectors
InsertSelfLast(loop, self_value) ==
    [ parameters_types_signal |-> Join(loop.types, ", "),
      parameter_types_closure |-> Append(loop.types, self_value.ty \o <<"&">>),
      parameter_values_closure |-> Append(loop.values, <<self_value.ident>>) ]

\* the join of line 50 made after the insert of line 53
InsertSelfJoinLate(loop, self_value) ==
    [ parameters_types_signal |-> Join(<<self_value.ty \o <<"&">>>> \o loop.types, ", "),
      parameter_types_closure |-> <<self_value.ty \o <<"&">>>> \o loop.types,
      parameter_values_closure |-> <<<<self_value.ident>>>> \o loop.values ]

\* self passed on like every other value, through ::std::move
InsertSelfMoved(loop, self_value) ==
    [ parameters_types_signal |-> Join(loop.types, ", "),
      parameter_types_closure |-> <<self_value.ty \o <<"&">>>> \o loop.types,
      parameter_values_closure |->
          <<<<"::std::move(", self_value.ident, ")">>>> \o loop.values ]

\* lines 50-54: the locals after the two insert(0, ..)
InsertSelf(loop, self_value) ==
    [ parameters_types_signal |-> Join(loop.types, ", "),
      parameter_types_closure |-> <<self_value.ty \o <<"&">>>> \o loop.types,
      parameter_values_closure |-> <<<<self_value.ident>>>> \o loop.values ]

\* lines 56-60: the Parameters value
Parameters(locals) ==
    [ types_closure |-> Join(locals.parameter_types_closure, ", "),
      types_signal |-> locals.parameters_types_signal,
      values_closure |-> Join(locals.parameter_values_closure, ", ") ]

\* the locals of parameter_types_and_values when it returns Ok, its error otherwise
ParameterLocals(parameters, mappings, self_value) ==
    LET loop == ParameterLoop(parameters, mappings, <<>>, <<>>)
    IN IF ~loop.ok THEN loop ELSE Ok(InsertSelf(loop.value, self_value))

parameter_types_and_values(parameters, mappings, self_value) ==
    LET locals == ParameterLocals(parameters, mappings, self_value)
    IN IF ~locals.ok THEN locals ELSE Ok(Parameters(locals.value))

\* what the state keeps of one call of parameter_types_and_values
Built(parameters, mappings, self_value) ==
    [ parameters |-> parameters, self_value |-> self_value,
      locals |-> ParameterLocals(parameters, mappings, self_value),
      result |-> parameter_types_and_values(parameters, mappings, self_value) ]

----------------------------------------------------------------------------
(* The generated text *)

LambdaIntro == "[&, func = ::std::move(func)]("

GuardToken == "const ::rust::cxxqtlib1::MaybeLockGuard<"

CallToken == "func("

\* the closure forwarding to the callback before it constructs the guard
ClosureBodyCallFirst(indent, guard_type, receiver_expr, values_closure) ==
    <<indent, CallToken>> \o values_closure \o <<");\n">>
    \o <<indent, GuardToken>> \o guard_type \o <<"> guard(", receiver_expr, ");\n">>

\* lines 107-108 and 164-165: the two statements of the closure
ClosureBody(indent, guard_type, receiver_expr, values_closure) ==
    <<indent, GuardToken>> \o guard_type \o <<"> guard(", receiver_expr, ");\n">>
    \o <<indent, CallToken>> \o values_closure \o <<");\n">>

\* CppFragment::Header and CppFragment::Pair
Header(header) == [kind |-> "Header", header |-> header]

Pair(header, source) == [kind |-> "Pair", header |-> header, source |-> source]

\* lines 145-149: the Q_SIGNAL declaration
QSignalDeclaration(signal_ident, parameters) ==
    Header(<<"Q_SIGNAL void ">> \o signal_ident \o <<"(">>
           \o parameters.types_signal \o <<");">>)

\* lines 151-171: the connect method of the generated QObject
ConnectPair(qobject_ident, signal_ident, connect_ident, parameters) ==
    Pair(<<"::QMetaObject::Connection ">> \o connect_ident \o <<"(::rust::Fn<void(">>
           \o parameters.types_closure
           \o <<")> func, ::Qt::ConnectionType type);">>,
         <<"::QMetaObject::Connection\n", qobject_ident, "::">> \o connect_ident
           \o <<"(::rust::Fn<void(">> \o parameters.types_closure
           \o <<")> func, ::Qt::ConnectionType type)\n", "{\n",
                "    return ::QObject::connect(this,\n", "        &", qobject_ident, "::">>
           \o signal_ident
           \o <<",\n", "        this,\n", "        ", LambdaIntro>>
           \o parameters.types_signal \o <<") {\n">>
           \o ClosureBody("            ", <<qobject_ident>>, "*this",
                          parameters.values_closure)
           \o <<"        },\n", "        type);\n", "}\n">>)

\* the Q_SIGNAL declaration pushed for every signal, inherited or not
SignalFragmentsAlwaysDeclared(signal, qobject_ident, parameters) ==
    LET idents == QSignalName(signal)
    IN << QSignalDeclaration(idents.name, parameters),
          ConnectPair(qobject_ident, idents.name, idents.connect_name, parameters) >>

\* the connect pair pushed before the Q_SIGNAL declaration
SignalFragmentsPairFirst(signal, qobject_ident, parameters) ==
    LET idents == QSignalName(signal)
    IN (<< ConnectPair(qobject_ident, idents.name, idents.connect_name, parameters) >>)
       \o (IF ~signal.inherit
           THEN << QSignalDeclaration(idents.name, parameters) >> ELSE <<>>)

\* lines 144-171: what one iteration pushes to generated.methods, in push order
SignalFragments(signal, qobject_ident, parameters) ==
    LET idents == QSignalName(signal)
    IN (IF ~signal.inherit
        THEN << QSignalDeclaration(idents.name, parameters) >> ELSE <<>>)
       \o << ConnectPair(qobject_ident, idents.name, idents.connect_name, parameters) >>

\* lines 90-114: the connect function of a signal of an existing QObject
FreeConnectPair(qobject_ident, qobject_ident_namespaced, signal_ident, connect_ident, parameters) ==
    Pair(<<"::QMetaObject::Connection\n", qobject_ident, "_">> \o connect_ident \o <<"(">>
           \o qobject_ident_namespaced \o <<"& self, ::rust::Fn<void(">>
           \o parameters.types_closure
           \o <<")> func, ::Qt::ConnectionType type);\n">>,
         <<"::QMetaObject::Connection\n", qobject_ident, "_">> \o connect_ident \o <<"(">>
           \o qobject_ident_namespaced \o <<"& self, ::rust::Fn<void(">>
           \o parameters.types_closure
           \o <<")> func, ::Qt::ConnectionType type)\n", "{\n",
                "    return ::QObject::connect(\n", "        &self,\n", "        &">>
           \o qobject_ident_namespaced \o <<"::">> \o signal_ident
           \o <<",\n", "        &self,\n", "        ", LambdaIntro>>
           \o parameters.types_signal \o <<") {\n">>
           \o ClosureBody("            ", qobject_ident_namespaced, "self",
                          parameters.values_closure)
           \o <<"        },\n", "        type);\n", "}\n">>)

\* a free generator that declares the signal when it is not inherited
generate_cpp_free_signal_declaring(signal, mappings) ==
    LET idents == QSignalName(signal)
        parameters == parameter_types_and_values(signal.parameters, mappings,
                          SelfValue("self", cxx(mappings, signal.qobject_ident)))
    IN IF ~parameters.ok THEN parameters
       ELSE IF ~signal.inherit
            THEN Ok(QSignalDeclaration(idents.name, parameters.value))
            ELSE Ok(FreeConnectPair(signal.qobject_ident,
                        cxx(mappings, signal.qobject_ident),
                        idents.name, idents.connect_name, parameters.value))

\* lines 64-115
generate_cpp_free_signal(signal, mappings) ==
    LET qobject_ident == signal.qobject_ident
        qobject_ident_namespaced == cxx(mappings, qobject_ident)
        idents == QSignalName(signal)
        parameters == parameter_types_and_values(signal.parameters, mappings,
                          SelfValue("self", qobject_ident_namespaced))
    IN IF ~parameters.ok THEN parameters
       ELSE Ok(FreeConnectPair(qobject_ident, qobject_ident_namespaced,
                               idents.name, idents.connect_name, parameters.value))

----------------------------------------------------------------------------
(* The generator as a state machine *)

Threads == 1..NumThreads

NoBuilt == [none |-> TRUE]

\* the runtime of the generated code is not started by the generator
RuntimeIdle ==
    /\ receiver = [locking |-> FALSE]
    /\ closure = <<>>
    /\ tpc = [t \in Threads |-> 0]
    /\ held = [t \in Threads |-> FALSE]
    /\ calling = [t \in Threads |-> FALSE]
    /\ outcome = [t \in Threads |-> "none"]

Init ==
    /\ call = "none"
    /\ pc = "idle"
    /\ signals = <<>>
    /\ free_signal = <<>>
    /\ cxx_mappings = DefaultMappings
    /\ idx = 1
    /\ methods = <<>>
    /\ origin = <<>>
    /\ built = NoBuilt
    /\ result = NoResult
    /\ rerun = FALSE
    /\ prev = NoResult
    /\ RuntimeIdle

\* a `generated` that keeps the methods of the call before
LeftoverMethods == methods

\* line 122: GeneratedCppQObjectBlocks::default().methods
DefaultMethods == <<>>

\* Vec::insert(0, ..) in place of Vec::push
PushFront(vec, pushed) == pushed \o vec

\* lines 146 and 151: Vec::push of each fragment
Push(vec, pushed) == vec \o pushed

\* lines 117-123: generate_cpp_signals is entered
Begin(sigs, mappings, again, before) ==
    /\ call' = "signals"
    /\ pc' = "loop"
    /\ signals' = sigs
    /\ free_signal' = <<>>
    /\ cxx_mappings' = mappings
    /\ idx' = 1
    /\ methods' = DefaultMethods
    /\ origin' = [p \in DOMAIN methods' |-> 0]
    /\ built' = NoBuilt
    /\ result' = NoResult
    /\ rerun' = again
    /\ prev' = before
    /\ UNCHANGED runVars

CallSignals ==
    /\ pc = "idle"
    /\ \E sigs \in SignalLists, mappings \in Mappings : Begin(sigs, mappings, FALSE, NoResult)

\* generate_cpp_signals called once more with the arguments of the call that returned
RerunSignals ==
    /\ pc = "done"
    /\ call = "signals"
    /\ ~rerun
    /\ Begin(signals, cxx_mappings, TRUE, result)

\* the self of a generated QObject: lines 135-138
MemberSelf == SelfValue("*this", <<qobject_idents.cpp_class>>)

\* lines 125-172, one iteration whose parameters resolve
IterateOk ==
    /\ pc = "loop"
    /\ idx <= Len(signals)
    /\ LET signal == signals[idx]
           parameters == parameter_types_and_values(signal.parameters, cxx_mappings,
                                                    MemberSelf)
           pushed == SignalFragments(signal, qobject_idents.cpp_class, parameters.value)
       IN /\ parameters.ok
          /\ built' = Built(signal.parameters, cxx_mappings, MemberSelf)
          /\ methods' = Push(methods, pushed)
          /\ origin' = Push(origin, [p \in DOMAIN pushed |-> idx])
          /\ idx' = idx + 1
    /\ UNCHANGED <<call, pc, signals, free_signal, cxx_mappings, result, rerun, prev>>
    /\ UNCHANGED runVars

\* an iteration that leaves a failing signal out and goes on with the next
IterateErrSkip ==
    /\ pc = "loop"
    /\ idx <= Len(signals)
    /\ LET signal == signals[idx]
           parameters == parameter_types_and_values(signal.parameters, cxx_mappings,
                                                    MemberSelf)
       IN /\ ~parameters.ok
          /\ built' = Built(signal.parameters, cxx_mappings, MemberSelf)
          /\ idx' = idx + 1
    /\ UNCHANGED <<call, pc, signals, free_signal, cxx_mappings, methods, origin, result,
                   rerun, prev>>
    /\ UNCHANGED runVars

\* lines 132-139, the `?`: the error of the parameters is returned from
\* generate_cpp_signals; methods and origin keep what `generated` held when it was dropped
IterateErr ==
    /\ pc = "loop"
    /\ idx <= Len(signals)
    /\ LET signal == signals[idx]
           parameters == parameter_types_and_values(signal.parameters, cxx_mappings,
                                                    MemberSelf)
       IN /\ ~parameters.ok
          /\ built' = Built(signal.parameters, cxx_mappings, MemberSelf)
          /\ result' = parameters
          /\ pc' = "done"
    /\ UNCHANGED <<call, signals, free_signal, cxx_mappings, idx, methods, origin, rerun,
                   prev>>
    /\ UNCHANGED runVars

\* line 174: Ok(generated)
Return ==
    /\ pc = "loop"
    /\ idx > Len(signals)
    /\ result' = Ok([methods |-> methods])
    /\ pc' = "done"
    /\ UNCHANGED <<call, signals, free_signal, cxx_mappings, idx, methods, origin, built,
                   rerun, prev>>
    /\ UNCHANGED runVars

\* lines 64-115: one call of generate_cpp_free_signal
Free(signal, mappings, again, before) ==
    /\ call' = "free"
    /\ pc' = "done"
    /\ signals' = <<>>
    /\ free_signal' = <<signal>>
    /\ cxx_mappings' = mappings
    /\ idx' = 1
    /\ methods' = <<>>
    /\ origin' = <<>>
    /\ built' = Built(signal.parameters, mappings,
                      SelfValue("self", cxx(mappings, signal.qobject_ident)))
    /\ result' = generate_cpp_free_signal(signal, mappings)
    /\ rerun' = again
    /\ prev' = before
    /\ UNCHANGED runVars

CallFree ==
    /\ pc = "idle"
    /\ \E signal \in ParsedSignals("ObjRust"), mappings \in Mappings :
           Free(signal, mappings, FALSE, NoResult)

\* generate_cpp_free_signal called once more with the arguments of the call that returned
RerunFree ==
    /\ pc = "done"
    /\ call = "free"
    /\ ~rerun
    /\ Free(free_signal[1], cxx_mappings, TRUE, result)

Next ==
    \/ CallSignals
    \/ RerunSignals
    \/ IterateOk
    \/ IterateErr
    \/ Return
    \/ CallFree
    \/ RerunFree

Spec == Init /\ [][Next]_vars

----------------------------------------------------------------------------
(* The generated closure at run time: threads of the event system invoke it *)

\* the statements of the closure of a connect definition, in text order
ClosureStatements(source) ==
    LET intro == CHOOSE p \in DOMAIN source : source[p] = LambdaIntro
        body == SubSeq(source, intro + 1, Len(source))
        IsStatement(token) == token \in {GuardToken, CallToken}
        stmts == SelectSeq(body, IsStatement)
    IN [p \in DOMAIN stmts |-> IF stmts[p] = GuardToken THEN "guard" ELSE "call"]

\* the connect definitions the two generators produce
ConnectDefinitions ==
    { generate_cpp_free_signal(signal, mappings).value :
        signal \in { s \in ParsedSignals("ObjRust") :
                       \E m \in Mappings : generate_cpp_free_signal(s, m).ok },
        mappings \in Mappings }
    \cup
    { SignalFragments(signal, qobject_idents.cpp_class,
          parameter_types_and_values(signal.parameters, mappings, MemberSelf).value)[
              IF signal.inherit THEN 1 ELSE 2] :
        signal \in { s \in ParsedSignals("MyObject") :
                       \E m \in Mappings :
                           parameter_types_and_values(s.parameters, m, MemberSelf).ok },
        mappings \in Mappings }

InitRuntime ==
    /\ call = "connect"
    /\ pc = "done"
    /\ signals = <<>>
    /\ free_signal = <<>>
    /\ cxx_mappings = DefaultMappings
    /\ idx = 1
    /\ methods = <<>>
    /\ origin = <<>>
    /\ built = NoBuilt
    /\ \E definition \in ConnectDefinitions :
          /\ result = Ok(definition)
          /\ closure = ClosureStatements(definition.source)
    /\ rerun = FALSE
    /\ prev = NoResult
    /\ receiver \in [locking : BOOLEAN]
    /\ tpc = [t \in Threads |-> 0]
    /\ held = [t \in Threads |-> FALSE]
    /\ calling = [t \in Threads |-> FALSE]
    /\ outcome = [t \in Threads |-> "none"]

\* the event system invokes the connected closure in thread t
Invoke(t) ==
    /\ tpc[t] = 0
    /\ tpc' = [tpc EXCEPT ![t] = 1]
    /\ UNCHANGED <<receiver, closure, held, calling, outcome>>
    /\ UNCHANGED genVars

\* MaybeLockGuard<T> guard(receiver): locks the receiver when its type is lockable
\* (waiting while another thread holds the lock), does nothing otherwise
ConstructGuard(t) ==
    /\ tpc[t] \in DOMAIN closure
    /\ closure[tpc[t]] = "guard"
    /\ receiver.locking => \A u \in Threads \ {t} : ~held[u]
    /\ held' = [held EXCEPT ![t] = receiver.locking]
    /\ tpc' = [tpc EXCEPT ![t] = @ + 1]
    /\ UNCHANGED <<receiver, closure, calling, outcome>>
    /\ UNCHANGED genVars

\* func(values): the user callback starts
CallBegin(t) ==
    /\ tpc[t] \in DOMAIN closure
    /\ closure[tpc[t]] = "call"
    /\ ~calling[t]
    /\ calling' = [calling EXCEPT ![t] = TRUE]
    /\ UNCHANGED <<receiver, closure, tpc, held, outcome>>
    /\ UNCHANGED genVars

\* the user callback returns
CallReturn(t) ==
    /\ calling[t]
    /\ calling' = [calling EXCEPT ![t] = FALSE]
    /\ tpc' = [tpc EXCEPT ![t] = @ + 1]
    /\ UNCHANGED <<receiver, closure, held, outcome>>
    /\ UNCHANGED genVars

\* the user callback fails: the closure is left at once, its guard is destroyed
CallFail(t) ==
    /\ calling[t]
    /\ calling' = [calling EXCEPT ![t] = FALSE]
    /\ held' = [held EXCEPT ![t] = FALSE]
    /\ tpc' = [tpc EXCEPT ![t] = 0]
    /\ outcome' = [outcome EXCEPT ![t] = "failed"]
    /\ UNCHANGED <<receiver, closure>>
    /\ UNCHANGED genVars

\* the end of the closure: its guard is destroyed
LeaveClosure(t) ==
    /\ tpc[t] = Len(closure) + 1
    /\ held' = [held EXCEPT ![t] = FALSE]
    /\ tpc' = [tpc EXCEPT ![t] = 0]
    /\ outcome' = [outcome EXCEPT ![t] = "returned"]
    /\ UNCHANGED <<receiver, closure, calling>>
    /\ UNCHANGED genVars

NextRuntime ==
    \E t \in Threads :
        \/ Invoke(t)
        \/ ConstructGuard(t)
        \/ CallBegin(t)
        \/ CallReturn(t)
        \/ CallFail(t)
        \/ LeaveClosure(t)

SpecRuntime == InitRuntime /\ [][NextRuntime]_vars

----------------------------------------------------------------------------
(* Vocabulary of the properties *)

Range(seq) == { seq[p] : p \in DOMAIN seq }

\* the positions of generated.methods that the iteration of signal k pushed
PositionsOf(k) == { p \in DOMAIN methods : origin[p] = k }

\* every parameter type of the signal resolves under the mappings of the call
Resolvable(signal) ==
    \A p \in DOMAIN signal.parameters :
        syn_type_to_cpp_type(signal.parameters[p].ty, cxx_mappings).ok

FailingSignals == { k \in DOMAIN signals : ~Resolvable(signals[k]) }

FirstFailing == CHOOSE k \in FailingSignals : \A j \in FailingSignals : k <= j

\* the first parameter of the list whose type does not resolve
FirstFailingParameter(parameters) ==
    LET bad == { p \in DOMAIN parameters :
                   ~syn_type_to_cpp_type(parameters[p].ty, cxx_mappings).ok }
    IN parameters[CHOOSE p \in bad : \A q \in bad : p <= q]

\* seq holds part as a run of consecutive elements
HasRun(seq, part) ==
    \E p \in 0..(Len(seq) - Len(part)) : SubSeq(seq, p + 1, p + Len(part)) = part

\* the fragments generate_cpp_signals is to produce for signal k alone
ExpectedFragments(k) ==
    SignalFragments(signals[k], qobject_idents.cpp_class,
        parameter_types_and_values(signals[k].parameters, cxx_mappings, MemberSelf).value)

ReturnedOk == pc = "done" /\ result.ok

----------------------------------------------------------------------------
(* C1: in generate_cpp_signals every signal whose generation succeeded has    *)
(* pushed exactly one fragment, the Pair, and no Header when inherit is true, *)
(* and exactly one Header followed by exactly one Pair when inherit is false. *)
C1_FragmentsPerSignal ==
    call = "signals" =>
        /\ \A k \in 1..(idx - 1) :
              IF signals[k].inherit
              THEN /\ Cardinality(PositionsOf(k)) = 1
                   /\ \A p \in PositionsOf(k) : methods[p].kind = "Pair"
              ELSE \E p \in DOMAIN methods :
                      /\ PositionsOf(k) = {p, p + 1}
                      /\ methods[p].kind = "Header"
                      /\ methods[p + 1].kind = "Pair"
        /\ ReturnedOk => /\ idx = Len(signals) + 1
                         /\ result.value.methods = methods

C1_Witness ==
    /\ call = "signals"
    /\ ReturnedOk
    /\ Len(signals) = 2
    /\ signals[1].inherit
    /\ ~signals[2].inherit
    /\ Len(result.value.methods) = 3

(* C2: the output of generate_cpp_signals is the concatenation of the groups  *)
(* of the signals in input order: fragments of an earlier signal come before  *)
(* those of a later one, and a Header is immediately followed by the Pair of  *)
(* the same signal.                                                           *)
C2_InputOrder ==
    call = "signals" =>
        /\ \A p, q \in DOMAIN methods : p < q => origin[p] <= origin[q]
        /\ \A p \in DOMAIN methods :
              /\ origin[p] \in 1..(idx - 1)
              /\ signals[origin[p]].ident \in Range(methods[p].header)
              /\ methods[p].kind = "Header" =>
                    /\ p + 1 \in DOMAIN methods
                    /\ methods[p + 1].kind = "Pair"
                    /\ origin[p + 1] = origin[p]
        /\ \A k \in 1..(idx - 1) : PositionsOf(k) # {}
        /\ ReturnedOk => /\ idx = Len(signals) + 1
                         /\ result.value.methods = methods

C2_Witness ==
    /\ call = "signals"
    /\ ReturnedOk
    /\ Len(signals) = 2
    /\ ~signals[1].inherit
    /\ signals[2].inherit
    /\ signals[1].parameters # <<>>
    /\ Len(result.value.methods) = 3

(* C3, as claimed: when a parameter type of one signal of the list does not   *)
(* resolve, the fragments of every other signal of the list are still         *)
(* produced by generate_cpp_signals.                                          *)
C3_OtherSignalsStillProduced ==
    (call = "signals" /\ pc = "done" /\ FailingSignals # {}) =>
        \A j \in DOMAIN signals \ FailingSignals :
            /\ result.ok
            /\ HasRun(result.value.methods, ExpectedFragments(j))

(* C3, amended: when a parameter type of one signal of the list does not      *)
(* resolve, generate_cpp_signals stops at the first such signal and returns   *)
(* the oracle's error unchanged in place of any output: no fragment of any    *)
(* signal is returned, and the signals after the failing one are not read.    *)
C3_AbortsWholeCall ==
    (call = "signals" /\ pc = "done") =>
        IF FailingSignals = {}
        THEN result.ok
        ELSE /\ ~result.ok
             /\ DOMAIN result = {"ok", "err"}
             /\ idx = FirstFailing
             /\ result = syn_type_to_cpp_type(
                             FirstFailingParameter(signals[idx].parameters).ty,
                             cxx_mappings)
             /\ \A p \in DOMAIN methods : origin[p] < idx

C3_Witness ==
    /\ call = "signals"
    /\ pc = "done"
    /\ ~result.ok
    /\ Len(signals) = 2
    /\ FailingSignals = {1}
    /\ signals[2].parameters # <<>>

(* C4: when a parameter type of a signal does not resolve, whatever position  *)
(* the parameter has, parameter_types_and_values returns the error and no     *)
(* Parameters, generate_cpp_free_signal returns the error and no fragment,    *)
(* and generate_cpp_signals has pushed neither the Header nor the Pair of     *)
(* the failing signal.                                                        *)
C4_NoPartialResult ==
    (built # NoBuilt /\
     \E p \in DOMAIN built.parameters :
         ~syn_type_to_cpp_type(built.parameters[p].ty, cxx_mappings).ok) =>
        /\ ~built.result.ok
        /\ DOMAIN built.result = {"ok", "err"}
        /\ ~built.locals.ok
        /\ pc = "done"
        /\ ~result.ok
        /\ DOMAIN result = {"ok", "err"}
        /\ result = built.result
        /\ call = "signals" =>
              /\ built.parameters = signals[idx].parameters
              /\ PositionsOf(idx) = {}
              /\ \A p \in DOMAIN methods : origin[p] < idx

C4_Witness ==
    /\ call = "signals"
    /\ pc = "done"
    /\ idx = 2
    /\ methods # <<>>
    /\ Len(built.parameters) = 2
    /\ syn_type_to_cpp_type(built.parameters[1].ty, cxx_mappings).ok
    /\ ~syn_type_to_cpp_type(built.parameters[2].ty, cxx_mappings).ok
    /\ ~result.ok

(* C5: for n parameters and either self, the forwarding values are n + 1      *)
(* elements: self's identifier as it is, then ::std::move(identifier) of each *)
(* parameter in the original order.                                           *)
C5_ForwardingValues ==
    (built # NoBuilt /\ built.locals.ok) =>
        LET values == built.locals.value.parameter_values_closure
            n == Len(built.parameters)
        IN /\ built.self_value.ident \in {"*this", "self"}
           /\ Len(values) = n + 1
           /\ values[1] = <<built.self_value.ident>>
           /\ \A i \in 1..n :
                 values[i + 1] = <<"::std::move(", built.parameters[i].ident, ")">>
           /\ built.result.ok
           /\ built.result.value.values_closure = Join(values, ", ")

C5_Witness ==
    /\ built # NoBuilt
    /\ built.locals.ok
    /\ Len(built.parameters) = 2
    /\ built.self_value.ident = "self"

(* C6, as claimed: with zero parameters the signal-parameter list is empty,   *)
(* the closure-parameter type list is exactly self's type text and the        *)
(* forwarding list is exactly self's identifier.                              *)
C6_ZeroParametersSelfType ==
    (built # NoBuilt /\ built.parameters = <<>>) =>
        /\ built.result.ok
        /\ built.result.value.types_signal = <<>>
        /\ built.result.value.types_closure = built.self_value.ty
        /\ built.result.value.values_closure = <<built.self_value.ident>>

(* C6, amended: with zero parameters the signal-parameter list is empty, the  *)
(* closure-parameter type list is exactly self's type text followed by "&"    *)
(* and the forwarding list is exactly self's identifier.                      *)
C6_ZeroParametersSelfReference ==
    (built # NoBuilt /\ built.parameters = <<>>) =>
        /\ built.result.ok
        /\ built.result.value.types_signal = <<>>
        /\ built.result.value.types_closure = built.self_value.ty \o <<"&">>
        /\ built.result.value.values_closure = <<built.self_value.ident>>

C6_Witness ==
    /\ built # NoBuilt
    /\ built.parameters = <<>>
    /\ call = "free"
    /\ cxx_mappings = RenamedMappings
    /\ built.result.ok

----------------------------------------------------------------------------
(* The properties of the closure at run time *)

\* the guard statement of the closure has been executed by thread t
GuardConstructed(t) == \E k \in 1..(tpc[t] - 1) : closure[k] = "guard"

\* the callback runs in at most one thread at a time
OneCallbackAtATime ==
    \A t, u \in Threads : (t # u /\ calling[t]) => ~calling[u]

GuardScoped ==
    \A t \in Threads :
        /\ calling[t] => GuardConstructed(t)
        /\ (calling[t] /\ receiver.locking) => held[t]
        /\ tpc[t] = 0 => ~held[t]
        /\ held[t] => receiver.locking

----------------------------------------------------------------------------
(* C9: for n parameters the closure-parameter type list is self's "Type&"     *)
(* entry followed by the n entries of the signal-parameter list in the same   *)
(* order, entry i being "<mapped type> <identifier>" of parameter i; self is  *)
(* not in the signal-parameter list.                                          *)
C9_ClosureTypes ==
    (built # NoBuilt /\ built.locals.ok) =>
        LET types == built.locals.value.parameter_types_closure
            n == Len(built.parameters)
            entry(i) == syn_type_to_cpp_type(built.parameters[i].ty, cxx_mappings).value
                        \o <<" ", built.parameters[i].ident>>
        IN /\ Len(types) = n + 1
           /\ types[1] = built.self_value.ty \o <<"&">>
           /\ \A i \in 1..n : types[i + 1] = entry(i)
           /\ built.result.ok
           /\ built.result.value.types_closure = Join(types, ", ")
           /\ built.result.value.types_signal = Join([i \in 1..n |-> entry(i)], ", ")
           /\ "&" \notin Range(built.result.value.types_signal)

C9_Witness ==
    /\ built # NoBuilt
    /\ built.locals.ok
    /\ Len(built.parameters) = 2
    /\ built.self_value.ident = "*this"
    /\ cxx_mappings = RenamedMappings

(* C10: generate_cpp_free_signal, when it succeeds, returns one Pair and      *)
(* never a Header, whatever the inherit flag of the signal: the flag changes  *)
(* nothing of its output.                                                     *)
C10_FreeSignalIgnoresInherit ==
    (call = "free" /\ pc = "done" /\ result.ok) =>
        /\ result.value.kind = "Pair"
        /\ DOMAIN result.value = {"kind", "header", "source"}
        /\ "Q_SIGNAL void " \notin Range(result.value.header)
        /\ methods = <<>>
        /\ LET flipped == [free_signal[1] EXCEPT !.inherit = ~@]
           IN generate_cpp_free_signal(flipped, cxx_mappings) = result

C10_Witness ==
    /\ call = "free"
    /\ pc = "done"
    /\ result.ok
    /\ ~free_signal[1].inherit
    /\ free_signal[1].parameters # <<>>

====
